---- MODULE Spec2Model ----
(***************************************************************************)
(* Picante: the per-key cell protocol of DerivedIngredient::get            *)
(* (crates/picante/src/ingredient/derived.rs) run by concurrent tasks      *)
(* against the revision clock of Runtime (crates/picante/src/runtime.rs).  *)
(*                                                                         *)
(* One derived ingredient (one QueryKindId) with keys 1..NumKeys.  Every   *)
(* task issues one top-level get; the compute function of a key is an      *)
(* arbitrary program: it may call get on any key (nested, same task), and  *)
(* it ends with a value, an error of its own, the error a nested get gave  *)
(* it (the `?` idiom), or a panic.                                         *)
(*                                                                         *)
(* Every block of get_scoped that touches shared state (the clock, the     *)
(* cell under its lock, the cell's Notify) is one action; task-local code  *)
(* (the frame stack) is merged into the adjacent action.                   *)
(*                                                                         *)
(* Further specifications over the same variables:                         *)
(*   RuntimeSpec  tasks call bump_revision, set_current_revision and the   *)
(*                input mutations concurrently (runtime.rs);               *)
(*   InternSpec   tasks call InternedIngredient::intern and get            *)
(*                concurrently (ingredient/interned.rs);                   *)
(*   PersistSpec  one cache file: save_cache by a quiescent process, then  *)
(*                a restart or a change of the file, then load_cache       *)
(*                (persist.rs and the save_records / load_records of the   *)
(*                ingredients);                                            *)
(*   SaveSpec     DerivedIngredient::save_records, one cell per step,      *)
(*                while gets run;                                          *)
(*   ClearSpec    DerivedIngredient::clear while gets run: the cells it    *)
(*                removes stay shared by the gets that hold them;          *)
(*   InternClearSpec  InternedIngredient::clear, one field per step,       *)
(*                while intern and get run;                                *)
(*   LoadSpec     InternedIngredient::load_records on arbitrary records.   *)
(***************************************************************************)
EXTENDS Integers, Sequences, FiniteSets, TLC

\* ---- bounds of the model
NumTasks == 2
NumKeys == 2
MaxRev == 1
MaxCalls == 1
MaxVal == 1
MaxOps == 2
MaxIVal == 2
MaxSteps == 3
MaxItems == 2
MaxRecs == 3
MaxClears == 1

Tasks == 1..NumTasks
Keys == 1..NumKeys
Values == 0..MaxVal

VARIABLES
    clock,      \* Runtime.current_revision
    cells,      \* DerivedIngredient.cells: key -> State of its cell ("Absent": no entry)
    waiters,    \* key -> tasks holding a Notified future of cell.notify
    stack,      \* task -> its get_scoped activations, outermost first
    frames,     \* task -> its task-local stack of active frames, root first
    result,     \* task -> what its top-level get returned
    starts,     \* history: key -> revision -> transitions to Running { started_at }
    seen,       \* history: task -> values v for which, since the running activation
                \*   read rev, the clock read rev while the cell was Ready { v, rev }
    produced,   \* history: key -> record_dep calls of the compute that wrote the cell
    watch,      \* Runtime.revision_tx: the value held by the watch channel
    events,     \* Runtime.events_tx: the events sent to the bus, oldest first
    published,  \* history: the values sent to the watch, oldest first
    rcall,      \* task -> its call of the runtime / input API in progress
    rlog,       \* history: task -> the calls it completed, oldest first
    inputs,     \* InputIngredient entries: key -> present
    by_value,   \* InternedIngredient.by_value: encoded value -> id
    by_id,      \* InternedIngredient.by_id: id -> value
    next_id,    \* InternedIngredient.next_id
    icall,      \* task -> its call of the interned ingredient in progress
    ilog,       \* history: task -> the interned calls it completed, oldest first
    files,      \* the file system: path -> content of the file
    conf,       \* the ingredients of the process: ingredient -> kind id, kind name
    pres,       \* the last call of save_cache / load_cache and what it returned
    saved,      \* history: the state the last successful save_cache saved
    steps,      \* history: number of persistence steps taken
    lrecs,      \* the records handed to InternedIngredient::load_records
    lres,       \* what that call of load_records returned
    sv,         \* the call of DerivedIngredient::save_records in progress
    epoch,      \* number of calls of DerivedIngredient::clear so far
    detached,   \* key -> State of the cell clear removed from the map, still
                \*   shared (Arc) by the activations that got it before
    dwaiters    \* key -> tasks holding a Notified future of that cell's notify

\* Runtime's channels
pubVars == <<watch, events, published>>

\* what a caller of the runtime / input API touches besides the clock
runVars == <<rcall, rlog, inputs>>

\* InternedIngredient and its callers
internVars == <<by_value, by_id, next_id, icall, ilog>>

\* DerivedIngredient and its callers
getVars == <<cells, waiters, stack, frames, result, starts, seen, produced>>

\* the files and the callers of save_cache / load_cache
persistVars == <<files, conf, pres, saved, steps>>

\* a direct call of InternedIngredient::load_records
loadVars == <<lrecs, lres>>

\* DerivedIngredient::clear and the cells it detached
clearVars == <<epoch, detached, dwaiters>>

\* what DerivedIngredient::get never touches
otherVars == <<runVars, internVars, persistVars, loadVars, sv>>

vars == <<clock, cells, waiters, stack, frames, result, starts, seen, produced,
          pubVars, otherVars, clearVars>>

\* ---- values of the data model

\* Arc<PicanteError>: kind plus the identity of the allocation (the compute
\* invocation <<key, rev, n>> that made it; c: the nested call that detected a cycle)
\* req, stack: the fields of PicanteError::Cycle
NoErr == [kind |-> "None", key |-> 0, rev |-> 0, n |-> 0, c |-> 0, req |-> 0,
          stack |-> <<>>]

MkErr(kind, a, c) == [NoErr EXCEPT !.kind = kind, !.key = a.key, !.rev = a.rev,
                                   !.n = a.n, !.c = c]

\* PicanteResult<V> as returned by get, with what the call last read
NoRet == [kind |-> "none", val |-> 0, err |-> NoErr, key |-> 0, rev |-> 0]

RetOk(v) == [NoRet EXCEPT !.kind = "ok", !.val = v]

RetErr(e) == [NoRet EXCEPT !.kind = "err", !.err = e]

\* enum State<V>
Absent == [st |-> "Absent", rev |-> 0, val |-> 0, err |-> NoErr, deps |-> <<>>]

Vacant == [Absent EXCEPT !.st = "Vacant"]

Running(r) == [Absent EXCEPT !.st = "Running", !.rev = r]

Ready(v, r, d) == [Absent EXCEPT !.st = "Ready", !.val = v, !.rev = r, !.deps = d]

Poisoned(e, r) == [Absent EXCEPT !.st = "Poisoned", !.err = e, !.rev = r]

\* one activation of get_scoped; old: its cell was removed from the map by clear;
\* history: inflight, it was running compute when clear was called and still is
NewAct(k) == [key |-> k, pc |-> "rev", rev |-> 0, n |-> 0, out |-> NoRet,
              calls |-> 0, recv |-> NoRet, log |-> <<>>, old |-> FALSE,
              inflight |-> FALSE]

Top(t) == stack[t][Len(stack[t])]

\* the next iteration of the loop: same key, same cell
Retry(a) == [NewAct(a.key) EXCEPT !.old = a.old]

\* the state of the cell the activation holds (let cell = ...clone())
CellOf(a) == IF a.old THEN detached[a.key] ELSE cells[a.key]

\* *state = s under the lock of the activation's cell
WriteCell(a, s) ==
    /\ cells' = IF a.old THEN cells ELSE [cells EXCEPT ![a.key] = s]
    /\ detached' = IF a.old THEN [detached EXCEPT ![a.key] = s] ELSE detached

\* the Notified futures of the notify of the activation's cell
WaitersOf(a) == IF a.old THEN dwaiters[a.key] ELSE waiters[a.key]

WriteWaiters(a, S) ==
    /\ waiters' = IF a.old THEN waiters ELSE [waiters EXCEPT ![a.key] = S]
    /\ dwaiters' = IF a.old THEN [dwaiters EXCEPT ![a.key] = S] ELSE dwaiters

Active(t) == stack[t] # <<>>

At(t, p) == Active(t) /\ Top(t).pc = p

SetTop(t, a) == [stack EXCEPT ![t] = [@ EXCEPT ![Len(@)] = a]]

\* ---- frame.rs (task-local frame stack)

find_cycle(fs, k) == \E i \in 1..Len(fs) : fs[i].key = k

\* the stack find_cycle returns: the keys of the frames, root first
snapshot(fs) == [i \in 1..Len(fs) |-> fs[i].key]

CycleNoStack(a, c, k, fs) == [MkErr("Cycle", a, c) EXCEPT !.req = k]

\* PicanteError::Cycle { requested, stack } made by the c-th nested call of a
Cycle(a, c, k, fs) == [MkErr("Cycle", a, c) EXCEPT !.req = k, !.stack = snapshot(fs)]

has_active_frame(fs) == fs # <<>>

record_dep(fs, k) ==
    IF fs = <<>> THEN fs
    ELSE [fs EXCEPT ![Len(fs)] = [@ EXCEPT !.deps = Append(@, k)]]

push_frame(fs, k, r) == Append(fs, [key |-> k, rev |-> r, deps |-> <<>>])

pop_frame(fs) == SubSeq(fs, 1, Len(fs) - 1)

take_deps(fs) == fs[Len(fs)].deps

\* ---- the pure decisions of get_scoped

\* match &*state at the fast path
Classify(s, rev) ==
    IF s.st = "Ready" /\ s.rev = rev THEN "Ready"
    ELSE IF s.st = "Poisoned" /\ s.rev = rev THEN "Error"
    ELSE IF s.st = "Running" THEN "Running"
    ELSE "Stale"

CanStartIgnoringRunning(s, rev) ==
    ~ (s.st \in {"Ready", "Poisoned"} /\ s.rev = rev)

\* match &*state at the attempt to start: TRUE where the code writes Running
CanStart(s, rev) ==
    /\ ~ (s.st = "Ready" /\ s.rev = rev)
    /\ ~ (s.st = "Poisoned" /\ s.rev = rev)
    /\ s.st # "Running"

StillCurrentUnchecked(now, rev) == TRUE

\* db.runtime().current_revision() == rev
StillCurrent(now, rev) == now = rev

FinalStateNoDeps(a, deps) ==
    IF a.out.kind = "ok" THEN Ready(a.out.val, a.rev, <<>>)
    ELSE Poisoned(a.out.err, a.rev)

FinalStatePanicAsRunning(a, deps) ==
    IF a.out.kind = "ok" THEN Ready(a.out.val, a.rev, deps)
    ELSE IF a.out.err.kind = "Panic" THEN Running(a.rev)
    ELSE Poisoned(a.out.err, a.rev)

\* the state written at finalize, for each arm of match result
FinalState(a, deps) ==
    IF a.out.kind = "ok" THEN Ready(a.out.val, a.rev, deps)
    ELSE Poisoned(a.out.err, a.rev)

DropGuardLeaked(fs) == fs

\* the frame guard `_guard` of an iteration goes out of scope at its return or
\* continue: the frame it pushed is popped
DropGuard(fs) == pop_frame(fs)

\* cells.entry(key).or_insert_with(Cell::new)
EntryOrInsert(cs, k) == IF cs[k].st = "Absent" THEN [cs EXCEPT ![k] = Vacant] ELSE cs

\* ---- history

Sight(stk, cls, clk) ==
    IF stk = <<>> THEN {}
    ELSE LET a == stk[Len(stk)]
         IN IF /\ a.pc # "rev"
               /\ cls[a.key].st = "Ready"
               /\ cls[a.key].rev = a.rev
               /\ clk = a.rev
            THEN {cls[a.key].val}
            ELSE {}

SeenNext ==
    seen' = [u \in Tasks |->
               IF \/ stack'[u] = <<>>
                  \/ Len(stack'[u]) # Len(stack[u])
                  \/ stack'[u][Len(stack'[u])].pc = "rev"
               THEN {}
               ELSE seen[u] \cup Sight(stack'[u], cells', clock')]

\* ---- key codec (Key::encode_facet / decode_facet: postcard varint of an integer)

Encode(n) == IF n < 128 THEN <<n>> ELSE <<128 + (n % 128), n \div 128>>

Decode(b) == IF Len(b) = 1 THEN b[1] ELSE (b[1] - 128) + 128 * b[2]

\* ---- enum RuntimeEvent

RevisionBumped(r) == [type |-> "RevisionBumped", revision |-> r, kind |-> 0, key |-> <<>>]

RevisionSet(r) == [type |-> "RevisionSet", revision |-> r, kind |-> 0, key |-> <<>>]

InputSet(r, kind, key) == [type |-> "InputSet", revision |-> r, kind |-> kind, key |-> key]

InputRemoved(r, kind, key) ==
    [type |-> "InputRemoved", revision |-> r, kind |-> kind, key |-> key]

\* ---- persist.rs: ingredients, paths, files

FORMAT_VERSION == 1

\* the ingredients of a database: one derived, one interned
Ings == {"derived", "interned"}

KindIds == {1, 2}

Names == {"a", "b"}

\* QueryKindId and kind_name of each ingredient, fixed when it is constructed;
\* the ingredients of one database have distinct kind ids
Confs == {c \in [kind : [Ings -> KindIds], name : [Ings -> Names]] :
            c.kind["derived"] # c.kind["interned"]}

DefaultConf == [kind |-> [i \in Ings |-> IF i = "derived" THEN 1 ELSE 2],
                name |-> [i \in Ings |-> "a"]]

\* the `ingredients` slices passed to save_cache / load_cache
Lists == {<<"derived", "interned">>, <<"interned", "derived">>,
          <<"derived", "derived">>, <<"interned">>}

\* PersistableIngredient::section_type
section_type(i) == IF i = "derived" THEN "Derived" ELSE "Interned"

Path(ext) == [stem |-> "cache", ext |-> ext]

Paths == {Path("bin"), Path("tmp")}

\* Path::with_extension
with_extension(p, ext) == [p EXCEPT !.ext = ext]

EmptyCache == [format_version |-> 0, current_revision |-> 0, sections |-> <<>>]

\* no file at the path
NoFile == [st |-> "none", cache |-> EmptyCache]

\* a file that is not the encoding of a CacheFile (a partial write)
Torn == [st |-> "torn", cache |-> EmptyCache]

\* a file tokio::fs::read fails on with an error other than NotFound
Unreadable(f) == [f EXCEPT !.st = "unreadable"]

\* facet_postcard::to_vec(&cache)
to_vec(c) == [st |-> "bytes", cache |-> c]

\* a record blob that decodes as no record type
NoRecord == [tag |-> "bad", key |-> <<>>, value |-> <<>>, verified_at |-> 0,
             deps |-> <<>>, id |-> 0]

NoPRes == [op |-> "none", res |-> "none", stage |-> "none", path |-> Path("bin"),
           list |-> <<>>, unique |-> TRUE, fresh |-> FALSE, rev |-> 0]

NoSaved == [valid |-> FALSE, conf |-> DefaultConf, list |-> <<>>, clock |-> 0,
            cells |-> [k \in Keys |-> Absent], by_value |-> <<>>, by_id |-> <<>>,
            next_id |-> 0, file |-> NoFile]

\* no call of DerivedIngredient::save_records: snap is the rest of the snapshot
\* of the map (keys whose cells it holds), records the records pushed so far;
\* history: running, the keys whose cell was found Running under the lock
NoSave == [pc |-> "idle", snap |-> <<>>, records |-> <<>>, running |-> {}]

\* a task's call of InternedIngredient: key is the encoded value, id the local `id`
NoICall == [op |-> "none", pc |-> "idle", value |-> 0, key |-> <<>>, id |-> 0,
            found |-> FALSE]

\* a task's call of the runtime / input API: prev is what fetch_add returned,
\* rev the local `rev` of bump_revision
NoCall == [op |-> "none", pc |-> "idle", arg |-> 0, prev |-> 0, rev |-> 0]

\* ---- initial state: Runtime::new, DerivedIngredient::new, idle tasks

Init ==
    /\ clock = 0
    /\ cells = [k \in Keys |-> Absent]
    /\ waiters = [k \in Keys |-> {}]
    /\ stack = [t \in Tasks |-> <<>>]
    /\ frames = [t \in Tasks |-> <<>>]
    /\ result = [t \in Tasks |-> NoRet]
    /\ starts = [k \in Keys |-> [r \in 0..MaxRev |-> 0]]
    /\ seen = [t \in Tasks |-> {}]
    /\ produced = [k \in Keys |-> <<>>]
    /\ watch = 0
    /\ events = <<>>
    /\ published = <<>>
    /\ rcall = [t \in Tasks |-> NoCall]
    /\ rlog = [t \in Tasks |-> <<>>]
    /\ inputs = [k \in Keys |-> FALSE]
    /\ by_value = <<>>
    /\ by_id = <<>>
    /\ next_id = 0
    /\ icall = [t \in Tasks |-> NoICall]
    /\ ilog = [t \in Tasks |-> <<>>]
    /\ files = [p \in Paths |-> NoFile]
    /\ conf = DefaultConf
    /\ pres = NoPRes
    /\ saved = NoSaved
    /\ steps = 0
    /\ lrecs = <<>>
    /\ lres = "none"
    /\ sv = NoSave
    /\ epoch = 0
    /\ detached = [k \in Keys |-> Absent]
    /\ dwaiters = [k \in Keys |-> {}]

\* ---- return of one get_scoped activation to its caller

\* what the activation hands back: its outcome, with the key and the revision
\* it last read
Stamp(a) == [a.out EXCEPT !.key = a.key, !.rev = a.rev]

\* what a compute function keeps of a nested get: that it succeeded, or the error
Received(ret) == IF ret.kind = "ok" THEN RetOk(0) ELSE RetErr(ret.err)

Return(t, ret) ==
    IF Len(stack[t]) = 1
    THEN /\ result' = [result EXCEPT ![t] = ret]
         /\ stack' = [stack EXCEPT ![t] = <<>>]
    ELSE /\ result' = result
         /\ stack' = [stack EXCEPT ![t] =
                [i \in 1..(Len(@) - 1) |->
                    IF i = Len(@) - 1 THEN [@[i] EXCEPT !.recv = Received(ret)]
                    ELSE @[i]]]

\* ---- actions

SendDropped(bus, e) == bus

\* broadcast::Sender::send: the event is queued behind the ones sent before
Send(bus, e) == Append(bus, e)

\* the atomic increment of bump_revision
FetchAddNone(cur) == cur

\* self.current_revision.fetch_add(1, Ordering::AcqRel): the value stored
FetchAdd(cur) == cur + 1

\* let next = fetch_add(..) + 1, from the value fetch_add returned
NextRevision(prev) == prev + 1

\* Runtime::bump_revision by a writer that no other writer interleaves with
Bump ==
    /\ clock < MaxRev
    /\ clock' = FetchAdd(clock)
    /\ watch' = NextRevision(clock)
    /\ published' = Append(published, NextRevision(clock))
    /\ events' = Send(events, RevisionBumped(NextRevision(clock)))
    /\ UNCHANGED <<cells, detached, waiters, dwaiters, stack, frames, result, starts, produced>>
    /\ SeenNext
    /\ UNCHANGED <<otherVars, epoch>>

\* DerivedIngredient::get at top level: no frame, so no cycle and no dep
Get(t, k) ==
    /\ ~ Active(t)
    /\ result[t].kind = "none"
    /\ cells' = EntryOrInsert(cells, k)
    /\ detached' = detached
    /\ stack' = [stack EXCEPT ![t] = <<NewAct(k)>>]
    /\ UNCHANGED <<clock, waiters, dwaiters, frames, result, starts, produced>>
    /\ SeenNext
    /\ UNCHANGED <<pubVars, otherVars, epoch>>

\* let rev = db.runtime().current_revision()
ReadRev(t) ==
    /\ At(t, "rev")
    /\ stack' = SetTop(t, [Top(t) EXCEPT !.rev = clock, !.pc = "observe"])
    /\ UNCHANGED <<clock, cells, detached, waiters, dwaiters, frames, result, starts, produced>>
    /\ SeenNext
    /\ UNCHANGED <<pubVars, otherVars, epoch>>

\* 1) fast path: classify the state under the lock
Observe(t) ==
    /\ At(t, "observe")
    /\ LET a == Top(t)
           s == CellOf(a)
           o == Classify(s, a.rev)
       IN stack' = SetTop(t,
            CASE o = "Ready" -> [a EXCEPT !.pc = "chkReady", !.out = RetOk(s.val)]
              [] o = "Error" -> [a EXCEPT !.pc = "chkErr", !.out = RetErr(s.err)]
              [] o = "Running" -> [a EXCEPT !.pc = "wait"]
              [] OTHER -> [a EXCEPT !.pc = "tryStart"])
    /\ UNCHANGED <<clock, cells, detached, waiters, dwaiters, frames, result, starts, produced>>
    /\ SeenNext
    /\ UNCHANGED <<pubVars, otherVars, epoch>>

\* Observed::Ready / Observed::Error: return only if the revision is unchanged
Recheck(t) ==
    /\ Active(t)
    /\ Top(t).pc \in {"chkReady", "chkErr"}
    /\ IF StillCurrent(clock, Top(t).rev)
       THEN Return(t, Stamp(Top(t)))
       ELSE /\ stack' = SetTop(t, Retry(Top(t)))
            /\ result' = result
    /\ UNCHANGED <<clock, cells, detached, waiters, dwaiters, frames, starts, produced>>
    /\ SeenNext
    /\ UNCHANGED <<pubVars, otherVars, epoch>>

\* Observed::Running: cell.notify.notified() creates the Notified future
Register(t) ==
    /\ At(t, "wait")
    /\ WriteWaiters(Top(t), WaitersOf(Top(t)) \cup {t})
    /\ stack' = SetTop(t, [Top(t) EXCEPT !.pc = "parked"])
    /\ UNCHANGED <<clock, cells, detached, frames, result, starts, produced>>
    /\ SeenNext
    /\ UNCHANGED <<pubVars, otherVars, epoch>>

\* .await of the Notified future completes once notify_waiters has run
Wake(t) ==
    /\ At(t, "parked")
    /\ t \notin WaitersOf(Top(t))
    /\ stack' = SetTop(t, Retry(Top(t)))
    /\ UNCHANGED <<clock, cells, detached, waiters, dwaiters, frames, result, starts, produced>>
    /\ SeenNext
    /\ UNCHANGED <<pubVars, otherVars, epoch>>

\* 2) attempt to start computation; 3) push the frame
TryStart(t) ==
    /\ At(t, "tryStart")
    /\ LET a == Top(t)
       IN IF CanStart(CellOf(a), a.rev)
          THEN /\ WriteCell(a, Running(a.rev))
               /\ starts' = [starts EXCEPT ![a.key][a.rev] = @ + 1]
               /\ frames' = [frames EXCEPT ![t] = push_frame(@, a.key, a.rev)]
               /\ stack' = SetTop(t, [a EXCEPT !.pc = "compute", !.calls = 0,
                                        !.n = starts[a.key][a.rev] + 1,
                                        !.recv = NoRet, !.log = <<>>])
          ELSE /\ stack' = SetTop(t, Retry(a))
               /\ UNCHANGED <<cells, detached, starts, frames>>
    /\ UNCHANGED <<clock, waiters, dwaiters, result, produced>>
    /\ SeenNext
    /\ UNCHANGED <<pubVars, otherVars, epoch>>

\* the compute function calls get(k) while k is on the task's frame stack:
\* find_cycle returns the stack and get fails with Cycle before anything else
CallCycle(t, k) ==
    /\ At(t, "compute")
    /\ Top(t).calls < MaxCalls
    /\ find_cycle(frames[t], k)
    /\ LET a == Top(t)
       IN stack' = SetTop(t, [a EXCEPT !.calls = @ + 1,
                                !.recv = RetErr(Cycle(a, a.calls + 1, k, frames[t]))])
    /\ UNCHANGED <<clock, cells, detached, waiters, dwaiters, frames, result, starts, produced>>
    /\ SeenNext
    /\ UNCHANGED <<pubVars, otherVars, epoch>>

\* the compute function calls get(k), no cycle: record the dep into the parent
\* frame, get or create the cell, enter the loop
CallEnter(t, k) ==
    /\ At(t, "compute")
    /\ Top(t).calls < MaxCalls
    /\ ~ find_cycle(frames[t], k)
    /\ frames' = [frames EXCEPT ![t] =
                    IF has_active_frame(@) THEN record_dep(@, k) ELSE @]
    /\ cells' = EntryOrInsert(cells, k)
    /\ detached' = detached
    /\ LET a == Top(t)
       IN stack' = [stack EXCEPT ![t] =
                      Append([@ EXCEPT ![Len(@)] =
                                [a EXCEPT !.calls = @ + 1, !.log = Append(@, k)]],
                             NewAct(k))]
    /\ UNCHANGED <<clock, waiters, dwaiters, result, starts, produced>>
    /\ SeenNext
    /\ UNCHANGED <<pubVars, otherVars, epoch>>

\* the compute function ends with `out`; 4) finalize: take the frame's deps and
\* write Ready / Poisoned under the lock
Finalize(t, out) ==
    /\ At(t, "compute")
    /\ LET a == [Top(t) EXCEPT !.out = out]
       IN /\ WriteCell(a, FinalState(a, take_deps(frames[t])))
          /\ produced' = [produced EXCEPT ![a.key] =
                            IF out.kind = "ok" THEN a.log ELSE <<>>]
          /\ stack' = SetTop(t, [a EXCEPT !.pc = "notify", !.calls = 0,
                                   !.recv = NoRet, !.log = <<>>, !.inflight = FALSE])
    /\ UNCHANGED <<clock, waiters, dwaiters, frames, result, starts>>
    /\ SeenNext
    /\ UNCHANGED <<pubVars, otherVars, epoch>>

\* the compute function returns Ok(v)
ComputeOk(t, v) ==
    /\ At(t, "compute")
    /\ Finalize(t, RetOk(v))

\* the compute function returns Err(e), e an error of its own
ComputeErr(t) ==
    /\ At(t, "compute")
    /\ Finalize(t, RetErr(MkErr("User", Top(t), 0)))

\* the compute function returns the Err a nested get gave it (get(..).await?)
ComputePropagate(t) ==
    /\ Active(t)
    /\ Top(t).recv.kind = "err"
    /\ Finalize(t, RetErr(Top(t).recv.err))

\* the compute function panics: catch_unwind gives Err(payload), made a Panic error
ComputePanic(t) ==
    /\ At(t, "compute")
    /\ Finalize(t, RetErr(MkErr("Panic", Top(t), 0)))

\* drop(state); cell.notify.notify_waiters()
Notify(t) ==
    /\ At(t, "notify")
    /\ WriteWaiters(Top(t), {})
    /\ stack' = SetTop(t, [Top(t) EXCEPT !.pc = "stale"])
    /\ UNCHANGED <<clock, cells, detached, frames, result, starts, produced>>
    /\ SeenNext
    /\ UNCHANGED <<pubVars, otherVars, epoch>>

\* 5) stale check: return the produced result or loop; either way the frame
\* guard of this iteration is dropped
StaleCheck(t) ==
    /\ At(t, "stale")
    /\ frames' = [frames EXCEPT ![t] = DropGuard(@)]
    /\ IF StillCurrent(clock, Top(t).rev)
       THEN Return(t, Stamp(Top(t)))
       ELSE /\ stack' = SetTop(t, Retry(Top(t)))
            /\ result' = result
    /\ UNCHANGED <<clock, cells, detached, waiters, dwaiters, starts, produced>>
    /\ SeenNext
    /\ UNCHANGED <<pubVars, otherVars, epoch>>

Step(t) ==
    \/ \E k \in Keys : Get(t, k)
    \/ ReadRev(t)
    \/ Observe(t)
    \/ Recheck(t)
    \/ Register(t)
    \/ Wake(t)
    \/ TryStart(t)
    \/ \E k \in Keys : CallCycle(t, k)
    \/ \E k \in Keys : CallEnter(t, k)
    \/ \E v \in Values : ComputeOk(t, v)
    \/ ComputeErr(t)
    \/ ComputePropagate(t)
    \/ ComputePanic(t)
    \/ Notify(t)
    \/ StaleCheck(t)

Next == Bump \/ \E t \in Tasks : Step(t)

Spec == Init /\ [][Next]_vars

\* The scheduler runs every task that can run; nothing forces an input mutation.
FairSpec == Spec /\ \A t \in Tasks : WF_vars(Step(t))

\* The future of a top-level get is dropped while it is suspended in the await of
\* its compute function or of a Notified future: the frame guards pop the frames,
\* the Notified future leaves the waiter list, and nothing else runs.
Cancel(t) ==
    /\ Active(t)
    /\ Top(t).pc \in {"compute", "parked"}
    /\ stack' = [stack EXCEPT ![t] = <<>>]
    /\ frames' = [frames EXCEPT ![t] = <<>>]
    /\ waiters' = [k \in Keys |-> waiters[k] \ {t}]
    /\ dwaiters' = [k \in Keys |-> dwaiters[k] \ {t}]
    /\ result' = [result EXCEPT ![t] = [NoRet EXCEPT !.kind = "dropped"]]
    /\ UNCHANGED <<clock, cells, detached, starts, produced>>
    /\ SeenNext
    /\ UNCHANGED <<pubVars, otherVars, epoch>>

CancelNext == Next \/ \E t \in Tasks : Cancel(t)

CancelSpec == Init /\ [][CancelNext]_vars

\* ---- Runtime and InputIngredient called by concurrent tasks
\* Each task issues up to MaxOps calls, one after the other; every atomic
\* operation or channel send of a call is one action.

InputKind == 1

RIdle(t) == rcall[t].pc = "idle" /\ Len(rlog[t]) < MaxOps

\* the call returns: the task is idle again and the call is logged
RReturn(t) ==
    /\ rlog' = [rlog EXCEPT ![t] = Append(@, [rcall[t] EXCEPT !.pc = "done"])]
    /\ rcall' = [rcall EXCEPT ![t] = NoCall]

RSame == UNCHANGED <<getVars, internVars, persistVars, loadVars, sv, clearVars>>

\* Runtime::bump_revision is called
BumpCall(t) ==
    /\ RIdle(t)
    /\ rcall' = [rcall EXCEPT ![t] = [NoCall EXCEPT !.op = "bump", !.pc = "fetch"]]
    /\ UNCHANGED <<clock, pubVars, rlog, inputs>>
    /\ RSame

\* let next = self.current_revision.fetch_add(1, Ordering::AcqRel) + 1
BumpFetch(t) ==
    /\ rcall[t].pc = "fetch"
    /\ clock' = FetchAdd(clock)
    /\ rcall' = [rcall EXCEPT ![t].prev = clock, ![t].rev = NextRevision(clock),
                              ![t].pc = "watch"]
    /\ UNCHANGED <<pubVars, rlog, inputs>>
    /\ RSame

\* let _ = self.revision_tx.send_replace(rev)
BumpWatch(t) ==
    /\ rcall[t].pc = "watch"
    /\ watch' = rcall[t].rev
    /\ published' = Append(published, rcall[t].rev)
    /\ rcall' = [rcall EXCEPT ![t].pc = "event"]
    /\ UNCHANGED <<clock, events, rlog, inputs>>
    /\ RSame

\* let _ = self.events_tx.send(RuntimeEvent::RevisionBumped { revision: rev }); rev
BumpEvent(t) ==
    /\ rcall[t].pc = "event"
    /\ events' = Send(events, RevisionBumped(rcall[t].rev))
    /\ IF rcall[t].op = "bump"
       THEN RReturn(t)
       ELSE rcall' = [rcall EXCEPT ![t].pc = "input_event"] /\ rlog' = rlog
    /\ UNCHANGED <<clock, watch, published, inputs>>
    /\ RSame

\* Runtime::set_current_revision(revision): self.current_revision.store(revision.0)
SetStore(t, r) ==
    /\ RIdle(t)
    /\ clock' = r
    /\ rcall' = [rcall EXCEPT ![t] = [NoCall EXCEPT !.op = "set", !.pc = "set_watch",
                                                   !.arg = r, !.rev = r]]
    /\ UNCHANGED <<pubVars, rlog, inputs>>
    /\ RSame

\* let _ = self.revision_tx.send_replace(revision)
SetWatch(t) ==
    /\ rcall[t].pc = "set_watch"
    /\ watch' = rcall[t].rev
    /\ published' = Append(published, rcall[t].rev)
    /\ rcall' = [rcall EXCEPT ![t].pc = "set_event"]
    /\ UNCHANGED <<clock, events, rlog, inputs>>
    /\ RSame

\* let _ = self.events_tx.send(RuntimeEvent::RevisionSet { revision })
SetEvent(t) ==
    /\ rcall[t].pc = "set_event"
    /\ events' = Send(events, RevisionSet(rcall[t].rev))
    /\ RReturn(t)
    /\ UNCHANGED <<clock, watch, published, inputs>>
    /\ RSame

\* InputIngredient::set(db, key, value): write the entry, then bump the clock
InputSetCall(t, k) ==
    /\ RIdle(t)
    /\ inputs' = [inputs EXCEPT ![k] = TRUE]
    /\ rcall' = [rcall EXCEPT ![t] = [NoCall EXCEPT !.op = "input_set", !.pc = "fetch",
                                                   !.arg = k]]
    /\ UNCHANGED <<clock, pubVars, rlog>>
    /\ RSame

\* InputIngredient::remove(db, key): delete the entry if present, then bump the
\* clock; nothing to do for an absent key
InputRemoveCall(t, k) ==
    /\ RIdle(t)
    /\ inputs' = [inputs EXCEPT ![k] = FALSE]
    /\ IF inputs[k]
       THEN /\ rcall' = [rcall EXCEPT ![t] = [NoCall EXCEPT !.op = "input_remove",
                                                          !.pc = "fetch", !.arg = k]]
            /\ rlog' = rlog
       ELSE /\ rcall' = rcall
            /\ rlog' = [rlog EXCEPT ![t] =
                          Append(@, [NoCall EXCEPT !.op = "remove_absent",
                                                   !.pc = "done", !.arg = k])]
    /\ UNCHANGED <<clock, pubVars>>
    /\ RSame

\* Runtime::notify_input_set / notify_input_removed, with the revision the bump
\* returned; the mutation returns that revision
NotifyInput(t) ==
    /\ rcall[t].pc = "input_event"
    /\ LET c == rcall[t]
       IN events' = Send(events,
            IF c.op = "input_set" THEN InputSet(c.rev, InputKind, Encode(c.arg))
            ELSE InputRemoved(c.rev, InputKind, Encode(c.arg)))
    /\ RReturn(t)
    /\ UNCHANGED <<clock, watch, published, inputs>>
    /\ RSame

RuntimeStep(t) ==
    \/ BumpCall(t)
    \/ BumpFetch(t)
    \/ BumpWatch(t)
    \/ BumpEvent(t)
    \/ \E r \in 0..MaxRev : SetStore(t, r)
    \/ SetWatch(t)
    \/ SetEvent(t)
    \/ \E k \in Keys : InputSetCall(t, k)
    \/ \E k \in Keys : InputRemoveCall(t, k)
    \/ NotifyInput(t)

RuntimeNext == \E t \in Tasks : RuntimeStep(t)

RuntimeSpec == Init /\ [][RuntimeNext]_vars

\* ---- InternedIngredient called by concurrent tasks
\* Each task issues up to MaxOps calls; every DashMap operation and the atomic
\* increment of next_id is one action.  by_value.entry(key) holds the write lock
\* of the key's shard until the entry is dropped.

\* the values interned: 0, 100, 200 (one- and two-byte encodings)
IValues == {100 * v : v \in 0..MaxIVal}

\* DashMap::insert
Insert(m, k, v) == [x \in (DOMAIN m) \cup {k} |-> IF x = k THEN v ELSE m[x]]

IIdle(t) == icall[t].pc = "idle" /\ Len(ilog[t]) < MaxOps

IReturn(t, c) ==
    /\ ilog' = [ilog EXCEPT ![t] = Append(@, [c EXCEPT !.pc = "done"])]
    /\ icall' = [icall EXCEPT ![t] = NoICall]

ISame == UNCHANGED <<clock, getVars, pubVars, runVars, persistVars, loadVars, sv,
                    clearVars>>

\* task t holds a VacantEntry of by_value for its key
HoldsEntry(t) == icall[t].pc \in {"vacant", "insert_id", "insert_value"}

EntryFreeAlways(t) == TRUE

\* by_value.entry(key) can take the lock: no other task holds the entry of that key
EntryFree(t) ==
    \A u \in Tasks \ {t} : ~ (HoldsEntry(u) /\ icall[u].key = icall[t].key)

OccupiedNever(m, key) == FALSE

\* Entry::Occupied: by_value has an entry for the key
Occupied(m, key) == key \in DOMAIN m

\* InternedIngredient::intern(value): let key = Key::encode_facet(&value)?
InternCall(t, v) ==
    /\ IIdle(t)
    /\ icall' = [icall EXCEPT ![t] = [NoICall EXCEPT !.op = "intern", !.pc = "entry",
                                                   !.value = v, !.key = Encode(v)]]
    /\ UNCHANGED <<by_value, by_id, next_id, ilog>>
    /\ ISame

\* match self.by_value.entry(key): Occupied returns the id, Vacant keeps the lock
InternEntry(t) ==
    /\ icall[t].pc = "entry"
    /\ EntryFree(t)
    /\ IF Occupied(by_value, icall[t].key)
       THEN IReturn(t, [icall[t] EXCEPT !.id = by_value[icall[t].key], !.found = TRUE])
       ELSE icall' = [icall EXCEPT ![t].pc = "vacant"] /\ ilog' = ilog
    /\ UNCHANGED <<by_value, by_id, next_id>>
    /\ ISame

\* let id = self.next_id.fetch_add(1, Ordering::AcqRel)
InternFetch(t) ==
    /\ icall[t].pc = "vacant"
    /\ next_id' = next_id + 1
    /\ icall' = [icall EXCEPT ![t].id = next_id, ![t].pc = "insert_id"]
    /\ UNCHANGED <<by_value, by_id, ilog>>
    /\ ISame

\* self.by_id.insert(id, Arc::new(value))
InternInsertId(t) ==
    /\ icall[t].pc = "insert_id"
    /\ by_id' = Insert(by_id, icall[t].id, icall[t].value)
    /\ icall' = [icall EXCEPT ![t].pc = "insert_value"]
    /\ UNCHANGED <<by_value, next_id, ilog>>
    /\ ISame

\* e.insert(id); Ok(id)
InternInsertValue(t) ==
    /\ icall[t].pc = "insert_value"
    /\ by_value' = Insert(by_value, icall[t].key, icall[t].id)
    /\ IReturn(t, icall[t])
    /\ UNCHANGED <<by_id, next_id>>
    /\ ISame

\* the ids intern has returned so far
Returned ==
    UNION {{ilog[t][i].id : i \in {j \in 1..Len(ilog[t]) : ilog[t][j].op = "intern"}} :
           t \in Tasks}

\* InternedIngredient::get(db, id) outside any frame, for an id intern returned:
\* self.by_id.get(&id), or MissingInternedValue
InternGet(t, id) ==
    /\ IIdle(t)
    /\ id \in Returned
    /\ IReturn(t, [NoICall EXCEPT !.op = "get", !.id = id,
                                  !.found = (id \in DOMAIN by_id),
                                  !.value = IF id \in DOMAIN by_id THEN by_id[id] ELSE 0])
    /\ UNCHANGED <<by_value, by_id, next_id>>
    /\ ISame

InternStep(t) ==
    \/ \E v \in IValues : InternCall(t, v)
    \/ InternEntry(t)
    \/ InternFetch(t)
    \/ InternInsertId(t)
    \/ InternInsertValue(t)
    \/ \E id \in 0..(MaxIVal + 1) : InternGet(t, id)

InternNext == \E t \in Tasks : InternStep(t)

InternSpec == Init /\ [][InternNext]_vars

\* ---- InternedIngredient::clear called concurrently with intern and get
\* clear is three operations, each one action.  DashMap::clear takes the write
\* lock of every shard in turn, so it waits for a task that holds an entry of
\* by_value; modelled is the run of by_value.clear() that meets no held entry.

\* InternedIngredient::clear is called
ClearCall(t) ==
    /\ IIdle(t)
    /\ icall' = [icall EXCEPT ![t] = [NoICall EXCEPT !.op = "clear", !.pc = "clear_value"]]
    /\ UNCHANGED <<by_value, by_id, next_id, ilog>>
    /\ ISame

\* self.by_value.clear()
ClearByValue(t) ==
    /\ icall[t].pc = "clear_value"
    /\ \A u \in Tasks : ~ HoldsEntry(u)
    /\ by_value' = <<>>
    /\ icall' = [icall EXCEPT ![t].pc = "clear_id"]
    /\ UNCHANGED <<by_id, next_id, ilog>>
    /\ ISame

\* self.by_id.clear()
ClearById(t) ==
    /\ icall[t].pc = "clear_id"
    /\ by_id' = <<>>
    /\ icall' = [icall EXCEPT ![t].pc = "clear_next"]
    /\ UNCHANGED <<by_value, next_id, ilog>>
    /\ ISame

\* self.next_id.store(0, Ordering::Release)
ClearNextId(t) ==
    /\ icall[t].pc = "clear_next"
    /\ next_id' = 0
    /\ IReturn(t, icall[t])
    /\ UNCHANGED <<by_value, by_id>>
    /\ ISame

ClearStep(t) == ClearCall(t) \/ ClearByValue(t) \/ ClearById(t) \/ ClearNextId(t)

InternClearNext == InternNext \/ \E t \in Tasks : ClearStep(t)

InternClearSpec == Init /\ [][InternClearNext]_vars

\* ---- persistence: records of the ingredients

\* DerivedRecord { key, value, verified_at, deps } as a postcard blob
DerivedRecordUnstamped(k, st, kind) ==
    [NoRecord EXCEPT !.tag = "derived", !.key = Encode(k), !.value = Encode(st.val),
                     !.deps = [i \in 1..Len(st.deps) |->
                                 [kind_id |-> kind, key_bytes |-> Encode(st.deps[i])]]]

DerivedRecord(k, st, kind) ==
    [NoRecord EXCEPT !.tag = "derived", !.key = Encode(k), !.value = Encode(st.val),
                     !.verified_at = st.rev,
                     !.deps = [i \in 1..Len(st.deps) |->
                                 [kind_id |-> kind, key_bytes |-> Encode(st.deps[i])]]]

\* InternedRecord { id, value } as a postcard blob
InternedRecord(id, v) == [NoRecord EXCEPT !.tag = "interned", !.id = id, !.value = Encode(v)]

\* DerivedIngredient::save_records: one record per Ready cell
DerivedSave(cs, kind) ==
    LET ready == SelectSeq([k \in 1..NumKeys |-> k], LAMBDA k : cs[k].st = "Ready")
    IN [i \in 1..Len(ready) |-> DerivedRecord(ready[i], cs[ready[i]], kind)]

\* DerivedIngredient::load_records: insert a Ready cell per record, stop at the
\* first record that does not decode
RECURSIVE DerivedLoad(_, _)
DerivedLoad(cs, recs) ==
    IF recs = <<>> THEN [ok |-> TRUE, cells |-> cs]
    ELSE LET r == Head(recs)
         IN IF r.tag # "derived" THEN [ok |-> FALSE, cells |-> cs]
            ELSE DerivedLoad(
                   [cs EXCEPT ![Decode(r.key)] =
                      Ready(Decode(r.value), r.verified_at,
                            [i \in 1..Len(r.deps) |-> Decode(r.deps[i].key_bytes)])],
                   Tail(recs))

\* snapshot.sort_by_key(|(id, _)| id.0)
RECURSIVE SortedIds(_)
SortedIds(S) ==
    IF S = {} THEN <<>>
    ELSE LET m == CHOOSE x \in S : \A y \in S : x <= y
         IN <<m>> \o SortedIds(S \ {m})

\* InternedIngredient::save_records: one record per entry of by_id, by id
InternedSave(byid) ==
    LET ids == SortedIds(DOMAIN byid)
    IN [i \in 1..Len(ids) |-> InternedRecord(ids[i], byid[ids[i]])]

\* InternedIngredient::clear
InternedEmpty == [by_value |-> <<>>, by_id |-> <<>>, next_id |-> 0]

ContainsKeyNever(m, k) == FALSE

\* DashMap::contains_key
ContainsKey(m, k) == k \in DOMAIN m

\* the loop of InternedIngredient::load_records and the store of next_id
RECURSIVE InternedLoadFrom(_, _, _)
InternedLoadFrom(st, recs, max_id) ==
    IF recs = <<>>
    THEN [ok |-> TRUE, err |-> "none", st |-> [st EXCEPT !.next_id = max_id + 1]]
    ELSE LET r == Head(recs)
             m == IF r.id > max_id THEN r.id ELSE max_id
             key == Encode(Decode(r.value))
         IN IF r.tag # "interned" THEN [ok |-> FALSE, err |-> "Decode", st |-> st]
            ELSE IF ContainsKey(st.by_id, r.id)
            THEN [ok |-> FALSE, err |-> "Cache", st |-> st]
            ELSE IF key \in DOMAIN st.by_value
            THEN [ok |-> FALSE, err |-> "Cache",
                  st |-> [st EXCEPT !.by_value = Insert(@, key, r.id)]]
            ELSE InternedLoadFrom(
                   [st EXCEPT !.by_value = Insert(@, key, r.id),
                              !.by_id = Insert(@, r.id, Decode(r.value))],
                   Tail(recs), m)

\* InternedIngredient::load_records: self.clear(); let mut max_id = 0; ...
InternedLoad(recs) == InternedLoadFrom(InternedEmpty, recs, 0)

\* ---- persistence: save_cache and load_cache

\* the in-memory state of the ingredients
Mem == [cells |-> cells, by_value |-> by_value, by_id |-> by_id, next_id |-> next_id]

Fresh == [cells |-> [k \in Keys |-> Absent], by_value |-> <<>>, by_id |-> <<>>,
          next_id |-> 0]

InList(i, list) == \E n \in 1..Len(list) : list[n] = i

\* fn ensure_unique_kinds
ensure_unique_kinds(list, c) ==
    \A i, j \in 1..Len(list) : i # j => c.kind[list[i]] # c.kind[list[j]]

\* ingredient.save_records()
save_records(m, i, c) ==
    IF i = "derived" THEN DerivedSave(m.cells, c.kind[i]) ELSE InternedSave(m.by_id)

\* the CacheFile save_cache builds
MakeCache(m, rev, list, c) ==
    [format_version |-> FORMAT_VERSION,
     current_revision |-> rev,
     sections |-> [n \in 1..Len(list) |->
                     [kind_id |-> c.kind[list[n]], kind_name |-> c.name[list[n]],
                      section_type |-> section_type(list[n]),
                      records |-> save_records(m, list[n], c)]]]

\* what create_dir_all, write(tmp) and rename(tmp, path) leave on disk when the
\* step `fail` fails ("none": all succeed); a failed write may have written part
SaveFiles(fsys, p, bytes, fail) ==
    LET tmp == with_extension(p, "tmp")
        written == [fsys EXCEPT ![tmp] = bytes]
        renamed == IF tmp = p THEN written
                   ELSE [written EXCEPT ![p] = bytes, ![tmp] = NoFile]
    IN CASE fail \in {"create_dir_all", "write"} -> fsys
         [] fail = "write_torn" -> [fsys EXCEPT ![tmp] = Torn]
         [] fail = "rename" -> written
         [] OTHER -> renamed

SaveFailures == {"none", "create_dir_all", "write", "write_torn", "rename"}

PSame == UNCHANGED <<waiters, stack, frames, result, starts, seen, produced,
                     runVars, icall, ilog, loadVars, sv, clearVars>>

\* save_cache(path, runtime, ingredients)
SaveCache(p, list, fail) ==
    /\ steps = 0
    /\ steps' = steps + 1
    /\ LET unique == ensure_unique_kinds(list, conf)
           cache == MakeCache(Mem, clock, list, conf)
           r == [NoPRes EXCEPT !.op = "save", !.path = p, !.list = list,
                               !.unique = unique, !.rev = clock]
       IN IF ~ unique
          THEN /\ fail = "none"
               /\ pres' = [r EXCEPT !.res = "Cache", !.stage = "ensure_unique_kinds"]
               /\ UNCHANGED <<files, saved>>
          ELSE /\ files' = SaveFiles(files, p, to_vec(cache), fail)
               /\ pres' = IF fail = "none" THEN [r EXCEPT !.res = "ok", !.stage = "done"]
                          ELSE [r EXCEPT !.res = "Cache",
                                         !.stage = IF fail = "write_torn" THEN "write"
                                                   ELSE fail]
               /\ saved' = IF fail = "none"
                           THEN [valid |-> TRUE, conf |-> conf, list |-> list,
                                 clock |-> clock, cells |-> cells, by_value |-> by_value,
                                 by_id |-> by_id, next_id |-> next_id,
                                 file |-> to_vec(cache)]
                           ELSE saved
    /\ UNCHANGED <<clock, cells, by_value, by_id, next_id, pubVars, conf>>
    /\ PSame

\* ingredient.clear() for every ingredient of the slice
ClearAll(m, list) ==
    [cells |-> IF InList("derived", list) THEN Fresh.cells ELSE m.cells,
     by_value |-> IF InList("interned", list) THEN <<>> ELSE m.by_value,
     by_id |-> IF InList("interned", list) THEN <<>> ELSE m.by_id,
     next_id |-> IF InList("interned", list) THEN 0 ELSE m.next_id]

\* ingredient.load_records(section.records)
load_records(m, i, recs) ==
    IF i = "derived"
    THEN LET r == DerivedLoad(m.cells, recs)
         IN [ok |-> r.ok, err |-> IF r.ok THEN "none" ELSE "Decode",
             m |-> [m EXCEPT !.cells = r.cells]]
    ELSE LET r == InternedLoad(recs)
         IN [ok |-> r.ok, err |-> r.err,
             m |-> [m EXCEPT !.by_value = r.st.by_value, !.by_id = r.st.by_id,
                             !.next_id = r.st.next_id]]

\* for section in cache.sections: skip an unknown kind, fail on a kind name or
\* section type mismatch, load_records(..)?
RECURSIVE LoadSections(_, _, _, _)
LoadSections(m, secs, list, c) ==
    IF secs = <<>> THEN [stage |-> "done", err |-> "none", m |-> m]
    ELSE LET sec == Head(secs)
             found == {i \in Ings : InList(i, list) /\ c.kind[i] = sec.kind_id}
         IN IF found = {} THEN LoadSections(m, Tail(secs), list, c)
            ELSE LET i == CHOOSE x \in found : TRUE
                     r == load_records(m, i, sec.records)
                 IN IF sec.kind_name # c.name[i]
                    THEN [stage |-> "kind_name", err |-> "Cache", m |-> m]
                    ELSE IF sec.section_type # section_type(i)
                    THEN [stage |-> "section_type", err |-> "Cache", m |-> m]
                    ELSE IF ~ r.ok
                    THEN [stage |-> "load_records", err |-> r.err, m |-> r.m]
                    ELSE LoadSections(r.m, Tail(secs), list, c)

EarlyStopNoVersion(f, unique) ==
    IF ~ unique THEN "ensure_unique_kinds"
    ELSE IF f.st = "none" THEN "not_found"
    ELSE IF f.st = "unreadable" THEN "read"
    ELSE IF f.st = "torn" THEN "decode"
    ELSE "none"

\* the returns of load_cache before the ingredients are cleared: the step that
\* stops the call, "none" if the call goes on
EarlyStop(f, unique) ==
    IF ~ unique THEN "ensure_unique_kinds"
    ELSE IF f.st = "none" THEN "not_found"
    ELSE IF f.st = "unreadable" THEN "read"
    ELSE IF f.st = "torn" THEN "decode"
    ELSE IF f.cache.format_version # FORMAT_VERSION THEN "format_version"
    ELSE "none"

\* load_cache(path, runtime, ingredients)
LoadCache(p, list) ==
    /\ steps < MaxSteps
    /\ pres.op # "load"
    /\ steps' = steps + 1
    /\ LET unique == ensure_unique_kinds(list, conf)
           early == EarlyStop(files[p], unique)
           r == [NoPRes EXCEPT !.op = "load", !.path = p, !.list = list,
                               !.unique = unique,
                               !.fresh = (Mem = Fresh /\ clock = 0), !.rev = clock]
           out == LoadSections(ClearAll(Mem, list), files[p].cache.sections, list, conf)
           rev == files[p].cache.current_revision
       IN IF early # "none"
          THEN /\ pres' = [r EXCEPT !.stage = early,
                                    !.res = CASE early = "not_found" -> "false"
                                              [] early = "decode" -> "Decode"
                                              [] OTHER -> "Cache"]
               /\ UNCHANGED <<clock, cells, by_value, by_id, next_id, pubVars>>
          ELSE /\ cells' = out.m.cells
               /\ by_value' = out.m.by_value
               /\ by_id' = out.m.by_id
               /\ next_id' = out.m.next_id
               /\ IF out.stage = "done"
                  THEN /\ clock' = rev
                       /\ watch' = rev
                       /\ published' = Append(published, rev)
                       /\ events' = Send(events, RevisionSet(rev))
                       /\ pres' = [r EXCEPT !.stage = "done", !.res = "true"]
                  ELSE /\ pres' = [r EXCEPT !.stage = out.stage, !.res = out.err]
                       /\ UNCHANGED <<clock, pubVars>>
    /\ UNCHANGED <<files, conf, saved>>
    /\ PSame

\* the process ends and a new one starts: a new Runtime and new ingredients,
\* constructed with kind ids and names of the new program
Restart(c) ==
    /\ steps + 1 < MaxSteps
    /\ pres.op # "load"
    /\ steps' = steps + 1
    /\ conf' = c
    /\ cells' = Fresh.cells
    /\ by_value' = <<>>
    /\ by_id' = <<>>
    /\ next_id' = 0
    /\ clock' = 0
    /\ watch' = 0
    /\ events' = <<>>
    /\ published' = <<>>
    /\ pres' = [NoPRes EXCEPT !.op = "restart"]
    /\ UNCHANGED <<files, saved>>
    /\ PSame

\* the cache file is changed by something other than save_cache: cut short,
\* made unreadable, written by a program with another FORMAT_VERSION, or with a
\* record blob of another record type in its last section
Damaged(f, how) ==
    CASE how = "torn" -> Torn
      [] how = "unreadable" -> Unreadable(f)
      [] how = "version" -> to_vec([f.cache EXCEPT !.format_version = @ + 1])
      [] OTHER -> to_vec([f.cache EXCEPT
                            !.sections[Len(f.cache.sections)].records =
                               Append(@, NoRecord)])

Damages == {"torn", "unreadable", "version", "record"}

Damage(p, how) ==
    /\ steps + 1 < MaxSteps
    /\ pres.op # "load"
    /\ files[p].st = "bytes"
    /\ how = "record" => files[p].cache.sections # <<>>
    /\ steps' = steps + 1
    /\ files' = [files EXCEPT ![p] = Damaged(@, how)]
    /\ pres' = [NoPRes EXCEPT !.op = "damage"]
    /\ UNCHANGED <<clock, cells, by_value, by_id, next_id, pubVars, conf, saved>>
    /\ PSame

\* the states of a cell of key k no task is working on, at revision clk
QuietStates(k, clk) ==
    {Absent, Vacant}
    \cup {Poisoned(MkErr("User", [key |-> k, rev |-> r, n |-> 1], 0), r) : r \in 0..clk}
    \cup {Ready(v, r, d) : v \in Values, r \in 0..clk,
                           d \in {<<>>} \cup {<<j>> : j \in Keys \ {k}}}

\* the states of the interned ingredient after interning n distinct values
InternedStates ==
    {[by_value |-> [key \in {Encode(q[i]) : i \in 1..Len(q)} |->
                      (CHOOSE i \in 1..Len(q) : Encode(q[i]) = key) - 1],
      by_id |-> [id \in 0..(Len(q) - 1) |-> q[id + 1]],
      next_id |-> Len(q)] :
       q \in {x \in UNION {[1..n -> IValues] : n \in 0..MaxItems} :
                \A i, j \in 1..Len(x) : i # j => x[i] # x[j]}}

\* a process that has run queries and interned values, all calls returned, and
\* holds at most MaxItems cells and interned values
PersistInit ==
    /\ clock \in 0..MaxRev
    /\ cells \in {cs \in [Keys -> UNION {QuietStates(k, clock) : k \in Keys}] :
                    \A k \in Keys :
                       /\ cs[k] \in QuietStates(k, clock)
                       /\ \A i \in 1..Len(cs[k].deps) : cs[cs[k].deps[i]].st # "Absent"}
    /\ \E st \in InternedStates :
         /\ Cardinality({k \in Keys : cells[k].st # "Absent"}) + st.next_id <= MaxItems
         /\ by_value = st.by_value
         /\ by_id = st.by_id
         /\ next_id = st.next_id
    /\ watch = clock
    /\ events = <<>>
    /\ published = <<>>
    /\ waiters = [k \in Keys |-> {}]
    /\ stack = [t \in Tasks |-> <<>>]
    /\ frames = [t \in Tasks |-> <<>>]
    /\ result = [t \in Tasks |-> NoRet]
    /\ starts = [k \in Keys |-> [r \in 0..MaxRev |-> 0]]
    /\ seen = [t \in Tasks |-> {}]
    /\ produced = [k \in Keys |-> <<>>]
    /\ rcall = [t \in Tasks |-> NoCall]
    /\ rlog = [t \in Tasks |-> <<>>]
    /\ inputs = [k \in Keys |-> FALSE]
    /\ icall = [t \in Tasks |-> NoICall]
    /\ ilog = [t \in Tasks |-> <<>>]
    /\ files = [p \in Paths |-> NoFile]
    /\ conf = DefaultConf
    /\ pres = NoPRes
    /\ saved = NoSaved
    /\ steps = 0
    /\ lrecs = <<>>
    /\ lres = "none"
    /\ sv = NoSave
    /\ epoch = 0
    /\ detached = [k \in Keys |-> Absent]
    /\ dwaiters = [k \in Keys |-> {}]

PersistNext ==
    \/ \E p \in Paths, list \in Lists, fail \in SaveFailures : SaveCache(p, list, fail)
    \/ \E p \in Paths, list \in Lists : LoadCache(p, list)
    \/ \E c \in Confs : Restart(c)
    \/ \E p \in Paths, how \in Damages : Damage(p, how)

PersistSpec == PersistInit /\ [][PersistNext]_vars

\* ---- DerivedIngredient::save_records called while gets run
\* One call of save_records: the snapshot of the map, then one iteration of
\* the loop per action.  A cell's lock is held by get only inside one action
\* (never across the await of compute), so cell.state.lock().await of the
\* saver completes at once.  The revision is bumped between queries only.

\* the orders in which self.cells.iter() can yield the keys of S
RECURSIVE Orders(_)
Orders(S) ==
    IF S = {} THEN {<<>>}
    ELSE UNION {{<<k>> \o q : q \in Orders(S \ {k})} : k \in S}

SaveSame == UNCHANGED <<clock, getVars, pubVars, runVars, internVars, persistVars,
                        loadVars, clearVars>>

\* let snapshot = self.cells.iter().map(..).collect()
SaveSnapshot ==
    /\ sv.pc = "idle"
    /\ \E q \in Orders({k \in Keys : cells[k].st # "Absent"}) :
          sv' = [sv EXCEPT !.pc = "locks", !.snap = q]
    /\ SaveSame

RecordAlways(k, s, kind) == <<DerivedRecord(k, s, kind)>>

\* let State::Ready { .. } = &*state else { continue }; records.push(bytes)
RecordIfReady(k, s, kind) == IF s.st = "Ready" THEN <<DerivedRecord(k, s, kind)>> ELSE <<>>

\* for (key, cell) in snapshot: lock the cell, inspect it, push its record
SaveInspect ==
    /\ sv.pc = "locks"
    /\ sv.snap # <<>>
    /\ LET k == Head(sv.snap)
       IN sv' = [sv EXCEPT !.snap = Tail(@),
                           !.records = @ \o RecordIfReady(k, cells[k], conf.kind["derived"]),
                           !.running = IF cells[k].st = "Running" THEN @ \cup {k} ELSE @]
    /\ SaveSame

\* Ok(records)
SaveReturn ==
    /\ sv.pc = "locks"
    /\ sv.snap = <<>>
    /\ sv' = [sv EXCEPT !.pc = "done"]
    /\ SaveSame

SaveStep == SaveSnapshot \/ SaveInspect \/ SaveReturn

\* Runtime::bump_revision between queries: no get is in progress
QuietBump ==
    /\ \A t \in Tasks : ~ Active(t)
    /\ Bump

SaveNext == SaveStep \/ QuietBump \/ \E t \in Tasks : Step(t)

SaveSpec == Init /\ [][SaveNext]_vars

\* ---- DerivedIngredient::clear called while gets run
\* clear empties the map; an activation that cloned the Arc of a cell before
\* keeps that cell, which is no longer the cell of its key in the map.

\* some activation holds the cell of key k
Held(k) == \E t \in Tasks : \E i \in 1..Len(stack[t]) : stack[t][i].key = k

\* PersistableIngredient::clear of the derived ingredient: self.cells.clear()
\* (no activation holds a cell detached by an earlier clear)
DerivedClear ==
    /\ epoch < MaxClears
    /\ \A t \in Tasks : \A i \in 1..Len(stack[t]) : ~ stack[t][i].old
    /\ epoch' = epoch + 1
    /\ detached' = [k \in Keys |-> IF Held(k) THEN cells[k] ELSE Absent]
    /\ dwaiters' = waiters
    /\ cells' = [k \in Keys |-> Absent]
    /\ waiters' = [k \in Keys |-> {}]
    /\ stack' = [t \in Tasks |->
                   [i \in 1..Len(stack[t]) |->
                      [stack[t][i] EXCEPT !.old = TRUE,
                                          !.inflight = (stack[t][i].pc = "compute")]]]
    /\ UNCHANGED <<clock, frames, result, starts, produced>>
    /\ SeenNext
    /\ UNCHANGED <<pubVars, otherVars>>

ClearNext == DerivedClear \/ QuietBump \/ \E t \in Tasks : Step(t)

ClearSpec == Init /\ [][ClearNext]_vars

\* ---- InternedIngredient::load_records on arbitrary records
\* The ingredient holds any content; load_records is called once with a list of
\* up to MaxRecs blobs: interned records with any id and value, or blobs that
\* are no record.

LoadRecords == {InternedRecord(id, v) : id \in 0..MaxIVal, v \in IValues} \cup {NoRecord}

RecordLists == UNION {[1..n -> LoadRecords] : n \in 0..MaxRecs}

LoadInit ==
    /\ clock = 0
    /\ cells = [k \in Keys |-> Absent]
    /\ waiters = [k \in Keys |-> {}]
    /\ stack = [t \in Tasks |-> <<>>]
    /\ frames = [t \in Tasks |-> <<>>]
    /\ result = [t \in Tasks |-> NoRet]
    /\ starts = [k \in Keys |-> [r \in 0..MaxRev |-> 0]]
    /\ seen = [t \in Tasks |-> {}]
    /\ produced = [k \in Keys |-> <<>>]
    /\ watch = 0
    /\ events = <<>>
    /\ published = <<>>
    /\ rcall = [t \in Tasks |-> NoCall]
    /\ rlog = [t \in Tasks |-> <<>>]
    /\ inputs = [k \in Keys |-> FALSE]
    /\ \E st \in InternedStates :
         /\ by_value = st.by_value
         /\ by_id = st.by_id
         /\ next_id = st.next_id
    /\ icall = [t \in Tasks |-> NoICall]
    /\ ilog = [t \in Tasks |-> <<>>]
    /\ files = [p \in Paths |-> NoFile]
    /\ conf = DefaultConf
    /\ pres = NoPRes
    /\ saved = NoSaved
    /\ steps = 0
    /\ lrecs \in RecordLists
    /\ lres = "none"
    /\ sv = NoSave
    /\ epoch = 0
    /\ detached = [k \in Keys |-> Absent]
    /\ dwaiters = [k \in Keys |-> {}]

\* InternedIngredient::load_records(records), the whole call
LoadRecordsCall ==
    /\ lres = "none"
    /\ LET out == InternedLoad(lrecs)
       IN /\ by_value' = out.st.by_value
          /\ by_id' = out.st.by_id
          /\ next_id' = out.st.next_id
          /\ lres' = IF out.ok THEN "ok" ELSE out.err
    /\ UNCHANGED <<clock, getVars, pubVars, runVars, persistVars, icall, ilog, lrecs,
                   sv, clearVars>>

\* InternedIngredient::intern(value) after load_records returned, the whole
\* call (no other call runs)
InternAfterLoad(t, v) ==
    /\ lres # "none"
    /\ IIdle(t)
    /\ LET key == Encode(v)
           c == [NoICall EXCEPT !.op = "intern", !.value = v, !.key = key]
       IN IF Occupied(by_value, key)
          THEN /\ IReturn(t, [c EXCEPT !.id = by_value[key], !.found = TRUE])
               /\ UNCHANGED <<by_value, by_id, next_id>>
          ELSE /\ next_id' = next_id + 1
               /\ by_id' = Insert(by_id, next_id, v)
               /\ by_value' = Insert(by_value, key, next_id)
               /\ IReturn(t, [c EXCEPT !.id = next_id])
    /\ UNCHANGED <<clock, getVars, pubVars, runVars, persistVars, loadVars, sv, clearVars>>

LoadNext == LoadRecordsCall \/ \E t \in Tasks, v \in IValues : InternAfterLoad(t, v)

LoadSpec == LoadInit /\ [][LoadNext]_vars

\* ---- properties

\* the activations of key k that hold the right to compute: past the transition
\* to Running, before the write of finalize
Computing(k) ==
    {p \in Tasks \X (1..NumKeys) :
        /\ p[2] <= Len(stack[p[1]])
        /\ stack[p[1]][p[2]].key = k
        /\ stack[p[1]][p[2]].pc = "compute"}

\* C1 single-flight: for each key at most one activation, over all tasks, is
\* between the transition of the cell to Running and the finalization.
C1_SingleFlight == \A k \in Keys : Cardinality(Computing(k)) <= 1

\* a second task reaches the attempt to start while the first one computes
C1_Witness ==
    \E t \in Tasks, u \in Tasks :
        /\ t # u
        /\ At(t, "compute")
        /\ At(u, "tryStart")
        /\ Top(u).key = Top(t).key

\* this step of task t returns Ok from get_scoped
ReturnsOk(t) ==
    /\ Active(t)
    /\ Top(t).pc \in {"chkReady", "stale"}
    /\ Top(t).out.kind = "ok"
    /\ Len(stack'[t]) = Len(stack[t]) - 1

\* C2 freshness: every get that returns Ok(v) having last read revision R reads R
\* again at its last check, and at some moment since it read R the clock read R
\* while the cell was Ready { value = v, verified_at = R }.
C2_Freshness ==
    [][\A t \in Tasks :
          ReturnsOk(t) => /\ clock = Top(t).rev
                          /\ Top(t).out.val \in seen[t]]_vars

\* a get returned Ok at a revision >= 1 for a key that was computed at revision 0
C2_Witness ==
    \E t \in Tasks :
        /\ result[t].kind = "ok"
        /\ result[t].rev >= 1
        /\ starts[result[t].key][0] >= 1

Waiting(t, k) ==
    /\ Active(t)
    /\ Top(t).key = k
    /\ Top(t).pc \in {"wait", "parked"}

\* C3 no lost wakeup: a get that classified the cell as Running stops waiting
\* once the owner has left Running, even when the owner notified before the
\* waiter started to await.
C3_NoLostWakeup ==
    \A t \in Tasks, k \in Keys :
        (Waiting(t, k) /\ cells[k].st # "Running") ~> ~ Waiting(t, k)

\* C4 cancellation safety: no cell is Running without an owner that still
\* computes it (a dropped owner leaves the cell Poisoned, never Running).
C4_NoOrphanRunning ==
    \A k \in Keys : cells[k].st = "Running" => Computing(k) # {}

\* e is the Panic error made for a panic of activation a's own compute function
OwnPanic(a, e) == e.kind = "Panic" /\ e.key = a.key /\ e.rev = a.rev /\ e.n = a.n

\* C5 panic containment: the finalize step of a compute that panicked at R writes
\* Poisoned { Panic, R } and does not notify yet; the next step of the owner
\* empties the waiter list; the stale check at R returns that Panic error; a get
\* that read a revision > R classifies the Panic-poisoned cell as stale and its
\* attempt to start writes Running and runs the compute function.
C5_PanicContainment ==
    [][\A t \in Tasks :
          (Active(t) /\ stack'[t] # stack[t]) =>
             LET a == Top(t)
                 c == cells[a.key]
                 later == c.st = "Poisoned" /\ c.err.kind = "Panic" /\ a.rev > c.rev
             IN /\ (a.pc = "compute" /\ Len(stack'[t]) = Len(stack[t])
                      /\ OwnPanic(a, Top(t)'.out.err))
                   => /\ cells'[a.key] = Poisoned(Top(t)'.out.err, a.rev)
                      /\ Top(t)'.out.err.rev = a.rev
                      /\ Top(t)'.pc = "notify"
                      /\ waiters' = waiters
                /\ (a.pc = "notify") => /\ waiters'[a.key] = {}
                                        /\ Top(t)'.pc = "stale"
                /\ (a.pc = "stale" /\ OwnPanic(a, a.out.err) /\ clock = a.rev)
                   => /\ Len(stack'[t]) = Len(stack[t]) - 1
                      /\ Len(stack[t]) = 1 => /\ result'[t].err = a.out.err
                                              /\ result'[t].rev = a.rev
                      /\ Len(stack[t]) > 1 => Top(t)'.recv.err = a.out.err
                /\ (a.pc = "observe" /\ later) => Top(t)'.pc = "tryStart"
                /\ (a.pc = "tryStart" /\ later)
                   => /\ cells'[a.key] = Running(a.rev)
                      /\ Top(t)'.pc = "compute"]_vars

\* a get returned the Panic error of revision R and the cell was started again
\* at a later revision
C5_Witness ==
    \E t \in Tasks :
        /\ result[t].kind = "err"
        /\ result[t].err.kind = "Panic"
        /\ result[t].err.key = result[t].key
        /\ result[t].err.rev = result[t].rev
        /\ cells[result[t].key].st \in {"Running", "Ready"}
        /\ cells[result[t].key].rev > result[t].rev

\* C6 cycle errors are never cached: no cell is Poisoned with a Cycle error.
C6_NoCycleCached ==
    \A k \in Keys : ~ (cells[k].st = "Poisoned" /\ cells[k].err.kind = "Cycle")

C8_PoisonSticky ==
    [][\A k \in Keys :
          (cells[k].st = "Poisoned" /\ cells[k].rev = clock /\ clock' = clock)
             => cells'[k] = cells[k]]_vars

\* C9 at most one compute per (key, start revision): a key's cell goes to
\* Running { started_at = R } at most once for each R.
C9_OneStartPerRevision ==
    \A k \in Keys, r \in 0..MaxRev : starts[k][r] <= 1

\* C10 shared outcome: two gets of one key that returned after last reading the
\* same revision returned the same value or the same error object.
C10_SharedOutcome ==
    \A t \in Tasks, u \in Tasks :
        (/\ result[t].kind \in {"ok", "err"}
         /\ result[u].kind \in {"ok", "err"}
         /\ result[t].key = result[u].key
         /\ result[t].rev = result[u].rev)
        => result[t] = result[u]

\* ---- properties of the revision clock

\* the calls of task t that bumped the clock: completed ones, then one past its
\* fetch_add if there is one
BumpsOf(t) ==
    LET done == SelectSeq(rlog[t], LAMBDA c : c.op \in {"bump", "input_set", "input_remove"})
    IN IF rcall[t].pc \in {"watch", "event", "input_event"}
       THEN Append(done, rcall[t]) ELSE done

\* no task has called set_current_revision
NoSet ==
    \A t \in Tasks :
        /\ rcall[t].op # "set"
        /\ \A i \in 1..Len(rlog[t]) : rlog[t][i].op # "set"

\* every call has returned
Quiescent == \A t \in Tasks : rcall[t].pc = "idle"

Increasing(q) == \A i, j \in 1..Len(q) : i < j => q[i] < q[j]

BumpedRevisions ==
    LET q == SelectSeq(events, LAMBDA e : e.type = "RevisionBumped")
    IN [i \in 1..Len(q) |-> q[i].revision]

\* C11: over any sequence of bump_revision and set_current_revision calls, the
\* value current_revision returns never decreases.
C11_RevisionMonotone == [][clock' >= clock]_vars

\* C12: with no set_current_revision, the bump_revision calls return pairwise
\* distinct revisions, each the successor of the value its fetch_add replaced;
\* once n calls starting from revision 0 have all returned, the revisions
\* returned are exactly 1..n and current_revision is n.
C12_BumpLinearizable ==
    NoSet =>
        /\ \A t, u \in Tasks :
             \A i \in 1..Len(BumpsOf(t)) : \A j \in 1..Len(BumpsOf(u)) :
                /\ BumpsOf(t)[i].rev = BumpsOf(t)[i].prev + 1
                /\ (t # u \/ i # j) => BumpsOf(t)[i].rev # BumpsOf(u)[j].rev
        /\ Quiescent =>
             LET R == UNION {{BumpsOf(t)[i].rev : i \in 1..Len(BumpsOf(t))} : t \in Tasks}
                 n == Cardinality({c \in Tasks \X (1..MaxOps) : c[2] <= Len(BumpsOf(c[1]))})
             IN R = 1..n /\ clock = n

C12_Witness ==
    /\ NoSet
    /\ Quiescent
    /\ \A t \in Tasks : Len(BumpsOf(t)) = MaxOps
    /\ BumpsOf(1)[1].rev > BumpsOf(2)[1].rev
    /\ BumpsOf(1)[1].rev < BumpsOf(2)[2].rev

\* C13: for concurrent bump_revision calls (no set_current_revision), the values
\* sent to the revision watch and the RevisionBumped events on the bus appear in
\* increasing revision order, and once every call has returned the watch holds
\* current_revision.
C13_PublicationsOrdered ==
    NoSet =>
        /\ Increasing(published)
        /\ Increasing(BumpedRevisions)
        /\ Quiescent => watch = clock

\* C14: a completed InputIngredient::set, or remove of a present key, returned
\* the revision r one above the revision it replaced, sent r to the watch, and
\* put on the bus RevisionBumped { r } and after it InputSet / InputRemoved with
\* r, the ingredient's kind and the encoded key; no input event is on the bus
\* without the RevisionBumped of its revision before it.
C14_MutationPublishes ==
    /\ \A t \in Tasks : \A n \in 1..Len(rlog[t]) :
         LET c == rlog[t][n]
         IN c.op \in {"input_set", "input_remove"} =>
              /\ c.rev = c.prev + 1
              /\ \E i \in 1..Len(published) : published[i] = c.rev
              /\ \E i, j \in 1..Len(events) :
                   /\ i < j
                   /\ events[i] = RevisionBumped(c.rev)
                   /\ events[j] = IF c.op = "input_set"
                                  THEN InputSet(c.rev, InputKind, Encode(c.arg))
                                  ELSE InputRemoved(c.rev, InputKind, Encode(c.arg))
    /\ \A j \in 1..Len(events) :
         events[j].type \in {"InputSet", "InputRemoved"} =>
            \E i \in 1..(j - 1) : events[i] = RevisionBumped(events[j].revision)

C14_Witness ==
    \E t, u \in Tasks :
        /\ t # u
        /\ Len(rlog[t]) = MaxOps
        /\ rlog[t][1].op = "input_set"
        /\ rlog[t][MaxOps].op = "input_remove"
        /\ Len(rlog[u]) > 0
        /\ rlog[u][1].op = "input_set"
        /\ rlog[u][1].rev < rlog[t][1].rev
        /\ events[Len(events)].type = "InputRemoved"

\* ---- properties of the interned ingredient

\* the completed intern calls
Interns ==
    UNION {{ilog[t][i] : i \in {j \in 1..Len(ilog[t]) : ilog[t][j].op = "intern"}} :
           t \in Tasks}

\* the completed get calls
InternGets ==
    UNION {{ilog[t][i] : i \in {j \in 1..Len(ilog[t]) : ilog[t][j].op = "get"}} :
           t \in Tasks}

\* C15: for concurrent intern calls without clear, two calls return the same id
\* iff their values have equal encodings; every id returned resolves through
\* get to the value interned; once every call has returned, the ids returned
\* for n distinct values are exactly 0..n-1.
C15_InternBijection ==
    /\ \A c, e \in Interns : (c.id = e.id) <=> (Encode(c.value) = Encode(e.value))
    /\ \A c \in Interns : c.id \in DOMAIN by_id /\ by_id[c.id] = c.value
    /\ \A g \in InternGets : g.found /\ \E c \in Interns : c.id = g.id /\ c.value = g.value
    /\ (\A t \in Tasks : icall[t].pc = "idle") =>
          {c.id : c \in Interns} = 0..(Cardinality({c.key : c \in Interns}) - 1)

C15_Witness ==
    /\ \A t \in Tasks : icall[t].pc = "idle"
    /\ \E c, e \in Interns : c.value = e.value /\ c.found /\ ~ e.found /\ c.id > 0
    /\ \E c \in Interns : Len(c.key) > 1
    /\ InternGets # {}

\* ---- properties of persistence

Members(list) == {list[n] : n \in 1..Len(list)}

\* the last call was load_cache, into fresh ingredients with the kind ids and
\* names of the ingredients saved, of the file the last successful save_cache wrote
RoundTrip ==
    /\ pres.op = "load"
    /\ pres.fresh
    /\ pres.unique
    /\ saved.valid
    /\ conf = saved.conf
    /\ Members(pres.list) = Members(saved.list)
    /\ files[pres.path] = saved.file

\* C16: save_cache at revision R followed by load_cache into fresh ingredients
\* returns true, leaves current_revision = R, restores every Ready derived cell
\* (value, verified_at, deps) and nothing else, and restores the interned maps;
\* a cell that was Ready at R is Ready at the current revision, so get returns
\* its value without computing.
C16_RoundTrip ==
    RoundTrip =>
        /\ pres.res = "true"
        /\ clock = saved.clock
        /\ InList("derived", saved.list) =>
             \A k \in Keys :
                IF saved.cells[k].st = "Ready"
                THEN /\ cells[k] = saved.cells[k]
                     /\ saved.cells[k].rev = saved.clock =>
                          /\ Classify(cells[k], clock) = "Ready"
                          /\ StillCurrent(clock, clock)
                ELSE cells[k] = Absent
        /\ InList("interned", saved.list) =>
             by_value = saved.by_value /\ by_id = saved.by_id

C16_Witness ==
    /\ RoundTrip
    /\ pres.res = "true"
    /\ clock > 0
    /\ \E k, j \in Keys :
          /\ cells[k] = Ready(MaxVal, clock, <<j>>)
          /\ cells[j].st = "Ready"
          /\ cells[j].rev < clock

\* the id a call of intern(v) returns when no other call runs
InternAnswer(m, v) ==
    IF Encode(v) \in DOMAIN m.by_value THEN m.by_value[Encode(v)] ELSE m.next_id

\* C17: after save_records and load_records into a fresh interned ingredient,
\* the id counter equals the counter saved, no loaded value holds an id the
\* counter will give out, and intern returns for every value the id it returns
\* on the original, also when nothing was interned before the save.
C17_InternedCounter ==
    (RoundTrip /\ InList("interned", saved.list)) =>
        /\ next_id = saved.next_id
        /\ \A id \in DOMAIN by_id : id < next_id
        /\ \A v \in IValues : InternAnswer(Mem, v) = InternAnswer(saved, v)

\* C18: when save_cache fails at create_dir_all, at the write of the temp file
\* or at the rename, the file at the target path is what it was before the call.
C18_AtomicSave ==
    [][(/\ pres'.op = "save"
        /\ pres'.stage \in {"create_dir_all", "write", "rename"})
       => files'[pres'.path] = files[pres'.path]]_vars

\* C19: when load_cache fails on a kind name mismatch, a section type mismatch
\* or a load_records error, no ingredient of the slice holds a record and
\* current_revision is what it was before the call.
C19_NoPartialLoad ==
    (pres.op = "load" /\ pres.stage \in {"kind_name", "section_type", "load_records"}) =>
        /\ InList("derived", pres.list) => cells = Fresh.cells
        /\ InList("interned", pres.list) => (by_value = <<>> /\ by_id = <<>>)
        /\ clock = pres.rev

\* C20: a load_cache called with a duplicate kind id, or on a file that does not
\* exist, cannot be read, does not decode or has another format_version,
\* changes no ingredient and not the revision, and returns Ok(false) for the
\* missing file and an error otherwise; a save_cache called with a duplicate
\* kind id fails with Cache and writes no file.
C20_EarlyStopNoEffect ==
    [][/\ (/\ pres'.op = "load"
           /\ \/ ~ pres'.unique
              \/ files[pres'.path].st \in {"none", "unreadable", "torn"}
              \/ files[pres'.path].cache.format_version # FORMAT_VERSION)
          => /\ UNCHANGED <<cells, by_value, by_id, next_id, clock, watch, events>>
             /\ IF pres'.unique /\ files[pres'.path].st = "none"
                THEN pres'.res = "false"
                ELSE pres'.res \in {"Cache", "Decode"}
       /\ (pres'.op = "save" /\ ~ pres'.unique)
          => /\ pres'.res = "Cache"
             /\ files' = files]_vars

C20_Witness ==
    /\ pres.op = "load"
    /\ pres.stage = "format_version"
    /\ \E k \in Keys : cells[k].st = "Poisoned"
    /\ next_id > 0

\* ---- properties of the frame stack

\* the activations of a task that hold a frame guard, outermost first
Guarded(stk) == SelectSeq(stk, LAMBDA a : a.pc \in {"compute", "notify", "stale"})

\* C23 frame push/pop balance: a task's frame stack holds exactly one frame per
\* get activation that is between its push (start of compute) and the end of
\* that loop iteration, in order, for the activation's key and revision; so an
\* activation that returned or retries has left the stack as it found it (no
\* frame at all for a task with no get in progress), and no task has two frames
\* for the same key.
C23_FrameBalance ==
    \A t \in Tasks :
        LET g == Guarded(stack[t])
        IN /\ Len(frames[t]) = Len(g)
           /\ \A i \in 1..Len(g) : /\ frames[t][i].key = g[i].key
                                   /\ frames[t][i].rev = g[i].rev
           /\ \A i, j \in 1..Len(frames[t]) :
                 frames[t][i].key = frames[t][j].key => i = j
           /\ \A i \in 1..(Len(stack[t]) - 1) : stack[t][i].pc = "compute"

\* a top-level get whose compute made a nested get has retried at a later
\* revision and returned: no frame is left
C23_Witness ==
    \E t \in Tasks :
        /\ result[t].kind # "none"
        /\ result[t].rev >= 1
        /\ frames[t] = <<>>
        /\ starts[result[t].key][0] >= 1
        /\ cells[result[t].key].st = "Ready"
        /\ cells[result[t].key].deps # <<>>

\* ---- properties of the cell's revision

\* C25 a cell never regresses: a cell that is Ready or Poisoned with
\* verified_at = R is never overwritten with Running { started_at = R' } or
\* with Ready / Poisoned { verified_at = R' } for R' < R.
C25_NoRegress ==
    [][\A k \in Keys :
          cells[k].st \in {"Ready", "Poisoned"}
             => ~ (/\ cells'[k].st \in {"Running", "Ready", "Poisoned"}
                   /\ cells'[k].rev < cells[k].rev)]_vars

\* ---- properties of cycle detection

\* C28 cycle detection leaves no trace: a get(k) that a compute function makes
\* enters the loop only if k is not on the task's frame stack; otherwise the
\* call gives the compute function a Cycle error for k that carries the frame
\* stack as it is, and the step changes no frame (no dep edge, no push), no cell
\* (none created, none changed), no waiter list and no start.  A Cycle error is
\* made by no other step, so tasks that wait on each other's Running cells get
\* none.
C28_CycleNoTrace ==
    [][\A t \in Tasks :
          (Active(t) /\ stack'[t] # stack[t]) =>
             LET a == Top(t)
                 e == Top(t)'.recv.err
                 fresh == /\ Top(t)'.recv.kind = "err"
                          /\ e.kind = "Cycle"
                          /\ a.recv # Top(t)'.recv
             IN /\ (a.pc = "compute" /\ Len(stack'[t]) = Len(stack[t]) + 1)
                   => ~ find_cycle(frames[t], Top(t)'.key)
                /\ (a.pc = "compute" /\ Len(stack'[t]) = Len(stack[t])
                      /\ Top(t)'.calls = a.calls + 1)
                   => fresh
                /\ (Len(stack'[t]) = Len(stack[t]) /\ fresh)
                   => /\ a.pc = "compute"
                      /\ find_cycle(frames[t], e.req)
                      /\ e.stack = snapshot(frames[t])
                      /\ <<e.key, e.rev, e.n>> = <<a.key, a.rev, a.n>>
                      /\ Top(t)'.calls = a.calls + 1
                      /\ Top(t)' = [a EXCEPT !.calls = @ + 1, !.recv = Top(t)'.recv]
                      /\ frames' = frames
                      /\ cells' = cells
                      /\ waiters' = waiters
                      /\ starts' = starts]_vars

\* a compute two frames deep got a Cycle error for the root key while another
\* task waits on one of the Running cells of that stack
C28_Witness ==
    \E t, u \in Tasks :
        /\ t # u
        /\ Active(t)
        /\ Top(t).recv.kind = "err"
        /\ Top(t).recv.err.kind = "Cycle"
        /\ Len(Top(t).recv.err.stack) >= 2
        /\ Top(t).recv.err.req = Top(t).recv.err.stack[1]
        /\ At(u, "parked")
        /\ find_cycle(frames[t], Top(u).key)
        /\ cells[Top(u).key].st = "Running"

\* ---- properties of interning

\* C24 interning has no side effect beyond allocation: the step at which intern
\* looks its value up, when the value is known, returns the existing id and
\* leaves next_id, by_value and by_id unchanged; a call for an unknown value
\* adds one id to by_id, one key to by_value and one to next_id and nothing
\* else; no step of an intern call changes the revision or sends to the watch
\* channel or the event bus.
C24_InternNoSideEffect ==
    [][\A t \in Tasks :
          (icall'[t] # icall[t] /\ "intern" \in {icall[t].op, icall'[t].op}) =>
             LET c == icall[t]
                 r == ilog'[t][Len(ilog'[t])]
             IN /\ <<clock, watch, events, published>>' = <<clock, watch, events, published>>
                /\ inputs' = inputs
                /\ cells' = cells
                /\ (c.pc = "entry" /\ c.key \in DOMAIN by_value)
                   => /\ Len(ilog'[t]) = Len(ilog[t]) + 1
                      /\ r.id = by_value[c.key]
                      /\ r.value = c.value
                      /\ <<next_id, by_value, by_id>>' = <<next_id, by_value, by_id>>
                /\ (c.pc = "entry" /\ c.key \notin DOMAIN by_value)
                   => /\ icall'[t].pc = "vacant"
                      /\ <<next_id, by_value, by_id>>' = <<next_id, by_value, by_id>>
                /\ (c.pc \in {"idle", "vacant"}) => <<by_value, by_id>>' = <<by_value, by_id>>
                /\ (c.pc = "idle") => next_id' = next_id
                /\ (c.pc = "vacant") => next_id' = next_id + 1
                /\ (c.pc = "insert_id")
                   => /\ by_id' = Insert(by_id, c.id, c.value)
                      /\ <<next_id, by_value>>' = <<next_id, by_value>>
                /\ (c.pc = "insert_value")
                   => /\ by_value' = Insert(by_value, c.key, c.id)
                      /\ <<next_id, by_id>>' = <<next_id, by_id>>]_vars

\* an intern call for a value interned before returned the existing id while
\* further ids were allocated; the revision is 0 and nothing was published
C24_Witness ==
    /\ \E t \in Tasks : \E i \in 1..Len(ilog[t]) :
          /\ ilog[t][i].op = "intern"
          /\ ilog[t][i].found
          /\ ilog[t][i].id + 1 < next_id
          /\ by_value[ilog[t][i].key] = ilog[t][i].id
    /\ clock = 0
    /\ events = <<>>
    /\ published = <<>>

\* ---- properties of InternedIngredient::load_records

\* the records of a list, when every blob of it decodes
AllDecode(recs) == \A i \in 1..Len(recs) : recs[i].tag = "interned"

\* two records of the list have the same id
DuplicateId(recs) ==
    \E i, j \in 1..Len(recs) :
        /\ i # j
        /\ recs[i].tag = "interned" /\ recs[j].tag = "interned"
        /\ recs[i].id = recs[j].id

\* two records of the list have values with equal encodings
DuplicateValue(recs) ==
    \E i, j \in 1..Len(recs) :
        /\ i # j
        /\ recs[i].tag = "interned" /\ recs[j].tag = "interned"
        /\ Encode(Decode(recs[i].value)) = Encode(Decode(recs[j].value))

\* m and n are mutually inverse: by_value (encoding -> id) and by_id (id -> value)
Inverse(m, n) ==
    /\ \A key \in DOMAIN m : m[key] \in DOMAIN n /\ Encode(n[m[key]]) = key
    /\ \A id \in DOMAIN n : Encode(n[id]) \in DOMAIN m /\ m[Encode(n[id])] = id

\* C22 load_records rejects inconsistent input: records that all decode, two of
\* them with the same id or with values of equal encodings, give a Cache error
\* (and no list holding such a pair is accepted); when load_records succeeds,
\* by_value and by_id are mutually inverse and hold exactly the loaded records.
C22_LoadRejects ==
    (lres # "none" /\ \A t \in Tasks : ilog[t] = <<>>) =>
        /\ (DuplicateId(lrecs) \/ DuplicateValue(lrecs)) => lres # "ok"
        /\ AllDecode(lrecs) =>
              ((DuplicateId(lrecs) \/ DuplicateValue(lrecs)) <=> lres = "Cache")
        /\ lres = "ok" =>
              /\ Inverse(by_value, by_id)
              /\ DOMAIN by_id = {lrecs[i].id : i \in 1..Len(lrecs)}
              /\ \A i \in 1..Len(lrecs) :
                    /\ by_id[lrecs[i].id] = Decode(lrecs[i].value)
                    /\ by_value[lrecs[i].value] = lrecs[i].id
              /\ DOMAIN by_value = {lrecs[i].value : i \in 1..Len(lrecs)}

\* load_records took MaxRecs records with distinct ids and values, not in id
\* order, into an ingredient that held other content
C22_Witness ==
    /\ lres = "ok"
    /\ Len(lrecs) = MaxRecs
    /\ lrecs[1].id > lrecs[2].id
    /\ Cardinality(DOMAIN by_id) = MaxRecs
    /\ \A t \in Tasks : ilog[t] = <<>>

\* ---- properties of InternedIngredient::clear

\* C27 the interned maps stay mutually inverse under clear: once every call of
\* intern, get and clear has returned, every id in by_value is in by_id with
\* the matching value, no two values map to the same id, and next_id is
\* greater than every id in use.
C27_InverseUnderClear ==
    (\A t \in Tasks : icall[t].pc = "idle") =>
        /\ \A key \in DOMAIN by_value :
              /\ by_value[key] \in DOMAIN by_id
              /\ Encode(by_id[by_value[key]]) = key
        /\ \A k1, k2 \in DOMAIN by_value : by_value[k1] = by_value[k2] => k1 = k2
        /\ \A key \in DOMAIN by_value : by_value[key] < next_id
        /\ \A id \in DOMAIN by_id : id < next_id

\* ---- properties of DerivedIngredient::save_records

\* C21 save_records emits exactly one record for each cell that is Ready when
\* its lock is taken, holding the cell's key, value, verified_at and deps, and
\* none for a Vacant, Running or Poisoned cell; the snapshot holds every cell of
\* the map once; no step of the save changes a cell or a task; and whatever the
\* cells' states (a compute in flight included), the save can take its next
\* step: it never waits for a compute.
C21_SaveRecords ==
    /\ [](sv.pc = "locks" => ENABLED SaveStep)
    /\ [][sv' # sv =>
            /\ <<clock, cells, waiters, stack, frames, result>>'
                  = <<clock, cells, waiters, stack, frames, result>>
            /\ sv.pc = "idle"
               => /\ sv'.records = <<>>
                  /\ {sv'.snap[i] : i \in 1..Len(sv'.snap)}
                        = {k \in Keys : cells[k].st # "Absent"}
                  /\ \A i, j \in 1..Len(sv'.snap) : sv'.snap[i] = sv'.snap[j] => i = j
            /\ (sv.pc = "locks" /\ sv.snap # <<>>)
               => LET k == Head(sv.snap)
                      s == cells[k]
                  IN /\ sv'.snap = Tail(sv.snap)
                     /\ s.st = "Ready"
                        => sv'.records =
                             Append(sv.records,
                                    [tag |-> "derived", key |-> Encode(k),
                                     value |-> Encode(s.val), verified_at |-> s.rev,
                                     deps |-> [i \in 1..Len(s.deps) |->
                                                 [kind_id |-> conf.kind["derived"],
                                                  key_bytes |-> Encode(s.deps[i])]],
                                     id |-> 0])
                     /\ s.st \in {"Vacant", "Running", "Poisoned"}
                        => sv'.records = sv.records
            /\ (sv.pc = "locks" /\ sv.snap = <<>>)
               => sv'.pc = "done" /\ sv'.records = sv.records]_vars

\* a save returned one record, of a Ready cell with deps, having skipped the
\* Running cell of a compute at a later revision that is still in flight
C21_Witness ==
    /\ sv.pc = "done"
    /\ Len(sv.records) = 1
    /\ sv.records[1].deps # <<>>
    /\ clock >= 1
    /\ \E k \in sv.running :
          /\ cells[k].st = "Running"
          /\ Computing(k) # {}

\* ---- properties of DerivedIngredient::clear

\* C26 single-flight across clear: when the ingredient is cleared while a
\* compute for a key is in flight, no get of that key that got its cell after
\* the clear runs the compute function while that computation is still running.
C26_SingleFlightAcrossClear ==
    \A k \in Keys : \A p, q \in Computing(k) :
        ~ (/\ stack[p[1]][p[2]].inflight
           /\ ~ stack[q[1]][q[2]].old)

====
